---- MODULE Spec2Model ----
(***************************************************************************)
(* Model of work/AILearning/oai_config.py: class OAIConfig.                *)
(*                                                                         *)
(* Python values are tagged records so that values of different Python     *)
(* types can be stored in one variable and compared:                       *)
(*   None            [t |-> "None"]                                        *)
(*   str             [t |-> "str",   s |-> "..."]                          *)
(*   int             [t |-> "int",   n |-> 47]                             *)
(*   float           [t |-> "float", repr |-> "0.5"]                       *)
(*   callable        [t |-> "callable", name |-> "..."]                    *)
(*   dict            [t |-> "dict",  d |-> a function from keys to values] *)
(*   list            [t |-> "list",  l |-> a sequence of values]           *)
(* An attribute that was never assigned is [t |-> "unset"].                *)
(***************************************************************************)
EXTENDS Naturals, Integers, Sequences, FiniteSets, TLC

VARIABLES env, pc, args, oai_auth_type, oai_config, ret

vars == <<env, pc, args, oai_auth_type, oai_config, ret>>

----------------------------------------------------------------------------
(* Python values *)

None == [t |-> "None"]

Str(s) == [t |-> "str", s |-> s]

IntV(n) == [t |-> "int", n |-> n]

FloatV(r) == [t |-> "float", repr |-> r]

Dict(d) == [t |-> "dict", d |-> d]

List(l) == [t |-> "list", l |-> l]

Callable(name) == [t |-> "callable", name |-> name]

NoAttr == [t |-> "unset"]

EmptyDict == Dict(<<>>)

(* bool(v) for the values that reach an `or` in the source: None and str *)
Truthy(v) == IF v.t = "None" THEN FALSE
             ELSE IF v.t = "str" THEN v.s # ""
             ELSE TRUE

(* `a if a is not None else b` in place of `a or b` *)
Or_NotNone(a, b) == IF a.t # "None" THEN a ELSE b

(* the Python expression `a or b` *)
Or(a, b) == IF Truthy(a) THEN a ELSE b

(* outcomes of a call: a returned value or a raised exception *)
Return(v) == [kind |-> "return", value |-> v]

Raise(e) == [kind |-> "raise", value |-> Str(e)]

(* the Python expression `v[k]` for a string key k *)
Subscript(v, k) ==
    IF v.t = "dict"
    THEN IF k \in DOMAIN v.d THEN Return(v.d[k]) ELSE Raise("KeyError")
    ELSE Raise("TypeError")

----------------------------------------------------------------------------
(* Inputs *)

AuthTypeNames == {"use_openai_api_key", "use_azure_openai_api_key",
                  "use_azure_managed_identity"}

(* values of OPENAI_AUTH_TYPE: absent, empty, recognized, unrecognized *)
AuthTypeEnvValues ==
    {None, Str(""), Str("some_other_auth")} \cup {Str(n) : n \in AuthTypeNames}

DataEnvNames == {"OPENAI_API_KEY", "OPENAI_API_MODEL", "OPENAI_API_VERSION",
                 "AZURE_OPENAI_API_KEY", "AZURE_OPENAI_API_BASE",
                 "AZURE_OPENAI_API_DEPLOY"}

EnvNames == DataEnvNames \cup {"OPENAI_AUTH_TYPE"}

(* a data variable is absent or holds a string that names the variable *)
Environments ==
    {[n \in EnvNames |->
        IF n = "OPENAI_AUTH_TYPE" THEN a
        ELSE IF n \in present THEN Str(n) ELSE None] :
      a \in AuthTypeEnvValues, present \in SUBSET DataEnvNames}

(* os.getenv(name) *)
getenv(e, name) == e[name]

ArgNames == {"config_file", "api_key", "api_version", "endpoint_url", "model_name"}

(* a constructor argument is omitted (None), empty, or a string naming it *)
ArgValues(n) == IF n = "config_file" THEN {None, Str("arg:" \o n)}
                ELSE {None, Str(""), Str("arg:" \o n)}

Overrides == {a \in [ArgNames -> UNION {ArgValues(n) : n \in ArgNames}] :
                \A n \in ArgNames : a[n] \in ArgValues(n)}

NoOverrides == [n \in ArgNames |-> None]

(* outcomes of calling the bearer token provider (interactive browser login) *)
LoginOutcomes == {Return(Str("token-1")), Return(Str("token-2")),
                  Raise("ClientAuthenticationError")}

----------------------------------------------------------------------------
(* class OAIConfig; self is [oai_auth_type |-> ..., oai_config |-> ...] *)

_use_azure_openai_api_key(self) ==
    self.oai_auth_type = Str("use_azure_openai_api_key")

_use_azure_managed_identity(self) ==
    self.oai_auth_type = Str("use_azure_managed_identity")

_use_openai_api_key(self) ==
    self.oai_auth_type = Str("use_openai_api_key")

(* azure.identity.get_bearer_token_provider(credential, scope): a *)
(* zero-argument callable                                         *)
bearer_token_provider == Callable("bearer_token_provider")

(* calling the provider runs the interactive login, whose outcome *)
(* (a token string, or an exception) is `login`                   *)
Call(f, login) == login

(* line 69 returns bearer_token_provider(), the result of the call *)
_get_bearer_token_provider(login) == Call(bearer_token_provider, login)

(* line 22 without its default *)
init_oai_auth_type_NoDefault(e) == getenv(e, "OPENAI_AUTH_TYPE")

(* line 22: the auth-mode selector, with its default *)
init_oai_auth_type(e) ==
    Or(getenv(e, "OPENAI_AUTH_TYPE"), Str("use_azure_openai_api_key"))

(* lines 25-29 taking the overrides as the cloud branches do *)
init_openai_config_Overrides(e, a) ==
    Dict([oai_key     |-> Or(a["api_key"], getenv(e, "OPENAI_API_KEY")),
          oai_model   |-> Or(a["model_name"], getenv(e, "OPENAI_API_MODEL")),
          oai_version |-> Or(a["api_version"], getenv(e, "OPENAI_API_VERSION"))])

(* lines 25-29: self.oai_config in direct-api-key mode *)
init_openai_config(e, a) ==
    Dict([oai_key     |-> getenv(e, "OPENAI_API_KEY"),
          oai_model   |-> getenv(e, "OPENAI_API_MODEL"),
          oai_version |-> getenv(e, "OPENAI_API_VERSION")])

(* lines 33-40: self.oai_config in cloud-api-key mode *)
init_azure_key_config(e, a) ==
    Dict([api_type      |-> Str("azure"),
          api_version   |-> Or(a["api_version"], getenv(e, "OPENAI_API_VERSION")),
          aoai_key      |-> Or(a["api_key"], getenv(e, "AZURE_OPENAI_API_KEY")),
          aoai_endpoint |-> Or(a["endpoint_url"], getenv(e, "AZURE_OPENAI_API_BASE")),
          aoai_deploy   |-> Or(a["model_name"], getenv(e, "AZURE_OPENAI_API_DEPLOY"))])

(* lines 45-52: self.oai_config in cloud-managed-identity mode *)
init_azure_identity_config(e, a, token_provider) ==
    Dict([api_type      |-> Str("azure"),
          api_version   |-> Or(a["api_version"], getenv(e, "OPENAI_API_VERSION")),
          azure_ad_token_provider |-> token_provider,
          aoai_endpoint |-> Or(a["endpoint_url"], getenv(e, "AZURE_OPENAI_API_BASE")),
          aoai_deploy   |-> Or(a["model_name"], getenv(e, "AZURE_OPENAI_API_DEPLOY"))])

(* __init__: the outcome is Return(self) or the exception of the login; *)
(* with an unrecognized selector no branch runs and oai_config is never set *)
__init__(e, a, login) ==
    LET s0 == [oai_auth_type |-> init_oai_auth_type(e), oai_config |-> NoAttr]
    IN  IF _use_openai_api_key(s0)
        THEN Return([s0 EXCEPT !.oai_config = init_openai_config(e, a)])
        ELSE IF _use_azure_openai_api_key(s0)
        THEN Return([s0 EXCEPT !.oai_config = init_azure_key_config(e, a)])
        ELSE IF s0.oai_auth_type = Str("use_azure_managed_identity")
        THEN LET token_provider == _get_bearer_token_provider(login)
             IN  IF token_provider.kind = "raise"
                 THEN token_provider
                 ELSE Return([s0 EXCEPT !.oai_config =
                        init_azure_identity_config(e, a, token_provider.value)])
        ELSE Return(s0)

(* get_config with the key name of the cloud-api-key branch copied into the *)
(* cloud-managed-identity branch                                            *)
get_config_CopiedKey(self) ==
    IF _use_openai_api_key(self)
    THEN Return(Dict(
            [type        |-> Str("oai"),
             model       |-> self.oai_config.d["oai_model"],
             api_key     |-> self.oai_config.d["oai_key"],
             api_version |-> self.oai_config.d["oai_version"]]))
    ELSE IF _use_azure_openai_api_key(self)
    THEN Return(Dict(
            [type      |-> Str("aoai"),
             aoai_args |-> Dict(
                [azure_endpoint |-> self.oai_config.d["aoai_endpoint"],
                 api_version    |-> self.oai_config.d["api_version"],
                 api_key        |-> self.oai_config.d["aoai_key"]]),
             model     |-> self.oai_config.d["aoai_deploy"]]))
    ELSE IF _use_azure_managed_identity(self)
    THEN Return(Dict(
            [type      |-> Str("aoai"),
             aoai_args |-> Dict(
                [azure_endpoint |-> self.oai_config.d["aoai_endpoint"],
                 api_version    |-> self.oai_config.d["api_version"],
                 api_key        |-> self.oai_config.d["azure_ad_token_provider"]]),
             model     |-> self.oai_config.d["aoai_deploy"]]))
    ELSE Return(EmptyDict)

get_config(self) ==
    IF _use_openai_api_key(self)
    THEN Return(Dict(
            [type        |-> Str("oai"),
             model       |-> self.oai_config.d["oai_model"],
             api_key     |-> self.oai_config.d["oai_key"],
             api_version |-> self.oai_config.d["oai_version"]]))
    ELSE IF _use_azure_openai_api_key(self)
    THEN Return(Dict(
            [type      |-> Str("aoai"),
             aoai_args |-> Dict(
                [azure_endpoint |-> self.oai_config.d["aoai_endpoint"],
                 api_version    |-> self.oai_config.d["api_version"],
                 api_key        |-> self.oai_config.d["aoai_key"]]),
             model     |-> self.oai_config.d["aoai_deploy"]]))
    ELSE IF _use_azure_managed_identity(self)
    THEN Return(Dict(
            [type      |-> Str("aoai"),
             aoai_args |-> Dict(
                [azure_endpoint |-> self.oai_config.d["aoai_endpoint"],
                 api_version    |-> self.oai_config.d["api_version"],
                 azure_ad_token_provider |-> self.oai_config.d["azure_ad_token_provider"]]),
             model     |-> self.oai_config.d["aoai_deploy"]]))
    ELSE Return(EmptyDict)

(* d[k] = v made on a copy: the mapping is left as it was *)
SetItem_Lost(dv, k, v) == dv

(* d[k] = v on a dict value: the mapping with key k added or replaced *)
SetItem(dv, k, v) ==
    Dict([x \in DOMAIN dv.d \cup {k} |-> IF x = k THEN v ELSE dv.d[x]])

get_default_autogen_config(self) ==
    IF _use_openai_api_key(self)
    THEN Return(Dict([model |-> self.oai_config.d["oai_model"]]))
    ELSE IF _use_azure_openai_api_key(self) \/ _use_azure_managed_identity(self)
    THEN LET entry == Dict(
                [api_type    |-> self.oai_config.d["api_type"],
                 api_version |-> self.oai_config.d["api_version"],
                 base_url    |-> self.oai_config.d["aoai_endpoint"],
                 model       |-> self.oai_config.d["aoai_deploy"]])
             entry1 ==
                IF _use_azure_openai_api_key(self)
                THEN SetItem(entry, "api_key", self.oai_config.d["aoai_key"])
                ELSE IF _use_azure_managed_identity(self)
                THEN SetItem(entry, "azure_ad_token_provider",
                             self.oai_config.d["azure_ad_token_provider"])
                ELSE entry
         IN  Return(Dict([config_list |-> List(<<entry1>>), cache_seed |-> None]))
    ELSE Return(None)

DefaultCustomArgs ==
    [seed |-> IntV(47), temperature |-> FloatV("0.5"),
     max_tokens |-> IntV(-1), timeout |-> IntV(6000)]

(* get_custom_autogen_config reading the list with `(... or {}).get(...)` *)
get_custom_autogen_config_Get(self, c) ==
    LET dflt == get_default_autogen_config(self)
        cl   == IF dflt.value.t = "dict" /\ "config_list" \in DOMAIN dflt.value.d
                THEN dflt.value.d["config_list"]
                ELSE None
    IN  Return(Dict(
                [config_list |-> cl,
                 seed        |-> c.seed,
                 temperature |-> c.temperature,
                 max_tokens  |-> c.max_tokens,
                 timeout     |-> c.timeout,
                 cache_seed  |-> None]))

get_custom_autogen_config(self, c) ==
    LET dflt == get_default_autogen_config(self)
        cl   == IF dflt.kind = "raise" THEN dflt
                ELSE Subscript(dflt.value, "config_list")
    IN  IF cl.kind = "raise" THEN cl
        ELSE Return(Dict(
                [config_list |-> cl.value,
                 seed        |-> c.seed,
                 temperature |-> c.temperature,
                 max_tokens  |-> c.max_tokens,
                 timeout     |-> c.timeout,
                 cache_seed  |-> None]))

(* argument tuples of get_custom_autogen_config: the defaults and two others *)
CustomArgs ==
    {DefaultCustomArgs,
     [seed |-> IntV(1), temperature |-> FloatV("0.0"),
      max_tokens |-> IntV(256), timeout |-> IntV(30)],
     [seed |-> None, temperature |-> None, max_tokens |-> None, timeout |-> None]}

----------------------------------------------------------------------------
(* The program: the environment is loaded, one instance is constructed, *)
(* then its accessors are called in any order, any number of times.     *)

Self == [oai_auth_type |-> oai_auth_type, oai_config |-> oai_config]

NoCall == [op |-> "none", args |-> <<>>, kind |-> "none", value |-> None]

Called(op, a, r) == [op |-> op, args |-> a, kind |-> r.kind, value |-> r.value]

Init ==
    /\ env \in Environments
    /\ pc = "start"
    /\ args = NoAttr
    /\ oai_auth_type = NoAttr
    /\ oai_config = NoAttr
    /\ ret = NoCall

Construct ==
    /\ pc = "start"
    /\ \E a \in Overrides, login \in LoginOutcomes :
          LET r == __init__(env, a, login)
          IN  /\ args' = a
              /\ IF r.kind = "return"
                 THEN /\ pc' = "constructed"
                      /\ oai_auth_type' = r.value.oai_auth_type
                      /\ oai_config' = r.value.oai_config
                      /\ ret' = ret
                 ELSE /\ pc' = "failed"
                      /\ ret' = Called("__init__", <<>>, r)
                      /\ UNCHANGED <<oai_auth_type, oai_config>>
    /\ UNCHANGED env

GetConfig ==
    /\ pc = "constructed"
    /\ ret' = Called("get_config", <<>>, get_config(Self))
    /\ UNCHANGED <<env, pc, args, oai_auth_type, oai_config>>

(* get_default_autogen_config building its result in self.oai_config *)
GetDefaultAutogenConfig_Aliased ==
    /\ pc = "constructed"
    /\ ret' = Called("get_default_autogen_config", <<>>,
                     get_default_autogen_config(Self))
    /\ oai_config' = IF oai_config.t = "dict"
                     THEN SetItem(oai_config, "cache_seed", None)
                     ELSE oai_config
    /\ UNCHANGED <<env, pc, args, oai_auth_type>>

GetDefaultAutogenConfig ==
    /\ pc = "constructed"
    /\ ret' = Called("get_default_autogen_config", <<>>,
                     get_default_autogen_config(Self))
    /\ UNCHANGED <<env, pc, args, oai_auth_type, oai_config>>

GetCustomAutogenConfig ==
    /\ pc = "constructed"
    /\ \E c \in CustomArgs :
          ret' = Called("get_custom_autogen_config", c,
                        get_custom_autogen_config(Self, c))
    /\ UNCHANGED <<env, pc, args, oai_auth_type, oai_config>>

Next ==
    \/ Construct
    \/ GetConfig
    \/ GetDefaultAutogenConfig
    \/ GetCustomAutogenConfig

Spec == Init /\ [][Next]_vars

----------------------------------------------------------------------------
(* Properties *)

Constructed == pc = "constructed"

Direct == Constructed /\ oai_auth_type = Str("use_openai_api_key")

CloudKey == Constructed /\ oai_auth_type = Str("use_azure_openai_api_key")

CloudIdentity == Constructed /\ oai_auth_type = Str("use_azure_managed_identity")

Unrecognized == Constructed /\ ~(Direct \/ CloudKey \/ CloudIdentity)

ActiveModes == {m \in AuthTypeNames : oai_auth_type = Str(m)}

Returned(op) == ret.op = op /\ ret.kind = "return"

(* C1: for every value of OPENAI_AUTH_TYPE a constructed instance has exactly *)
(* one of the three auth modes active, and get_config never returns the      *)
(* empty mapping of its fallback.                                             *)
C1_ExactlyOneModeActive ==
    Constructed =>
        /\ Cardinality(ActiveModes) = 1
        /\ (ret.op = "get_config" => DOMAIN ret.value.d # {})

(* C2: in cloud-managed-identity mode the value stored under                *)
(* 'azure_ad_token_provider', and exposed by get_config and                 *)
(* get_default_autogen_config, is the provider callable, never the token.   *)
C2_HoldsProviderNotToken ==
    CloudIdentity =>
        /\ oai_config.d["azure_ad_token_provider"] = bearer_token_provider
        /\ (Returned("get_config") =>
              ret.value.d["aoai_args"].d["azure_ad_token_provider"].t = "callable")
        /\ (Returned("get_default_autogen_config") =>
              ret.value.d["config_list"].l[1].d["azure_ad_token_provider"].t
                 = "callable")

(* C3: in each of the three auth modes get_custom_autogen_config returns the *)
(* mapping that wraps the config_list of get_default_autogen_config with the *)
(* arguments and cache_seed None; it fails only when                         *)
(* get_default_autogen_config returned nothing.                              *)
C3_CustomWrapsDefault ==
    (Constructed /\ ~Unrecognized /\ ret.op = "get_custom_autogen_config") =>
        LET dflt == get_default_autogen_config(Self).value
        IN  /\ ret.kind = "raise" => dflt.t = "None"
            /\ ret.kind = "return" =>
                  /\ DOMAIN ret.value.d = {"config_list", "seed", "temperature",
                                            "max_tokens", "timeout", "cache_seed"}
                  /\ ret.value.d["config_list"] = dflt.d["config_list"]
                  /\ ret.value.d["seed"] = ret.args.seed
                  /\ ret.value.d["temperature"] = ret.args.temperature
                  /\ ret.value.d["max_tokens"] = ret.args.max_tokens
                  /\ ret.value.d["timeout"] = ret.args.timeout
                  /\ ret.value.d["cache_seed"] = None

(* the fields of oai_config resolved from an override or the environment: *)
(* the field, the constructor argument and the environment variable       *)
ResolvedFields ==
    {[field |-> "api_version", arg |-> "api_version", var |-> "OPENAI_API_VERSION"],
     [field |-> "aoai_key", arg |-> "api_key", var |-> "AZURE_OPENAI_API_KEY"],
     [field |-> "aoai_endpoint", arg |-> "endpoint_url", var |-> "AZURE_OPENAI_API_BASE"],
     [field |-> "aoai_deploy", arg |-> "model_name", var |-> "AZURE_OPENAI_API_DEPLOY"]}

FieldsOfMode == {f \in ResolvedFields : f.field \in DOMAIN oai_config.d}

(* C4 as stated: in the cloud modes each resolved field equals the override *)
(* whenever one is supplied (any string, the empty string included), and    *)
(* the environment variable only when none is supplied.                     *)
C4_OverrideWheneverSupplied ==
    (CloudKey \/ CloudIdentity) =>
        \A f \in FieldsOfMode :
            IF args[f.arg].t # "None"
            THEN oai_config.d[f.field] = args[f.arg]
            ELSE oai_config.d[f.field] = env[f.var]

(* C4 amended: in the cloud modes each resolved field equals the override   *)
(* whenever a non-empty override is supplied, and the environment variable  *)
(* when the override is omitted or is the empty string; the key is resolved *)
(* in cloud-api-key mode only.                                              *)
C4_NonEmptyOverrideWins ==
    (CloudKey \/ CloudIdentity) =>
        /\ {f.field : f \in FieldsOfMode} =
              IF CloudKey
              THEN {"api_version", "aoai_key", "aoai_endpoint", "aoai_deploy"}
              ELSE {"api_version", "aoai_endpoint", "aoai_deploy"}
        /\ \A f \in FieldsOfMode :
              IF args[f.arg].t = "str" /\ args[f.arg].s # ""
              THEN oai_config.d[f.field] = args[f.arg]
              ELSE oai_config.d[f.field] = env[f.var]

(* a cloud-api-key instance built with a non-empty key override over a set *)
(* environment key, an empty endpoint override and an omitted model name   *)
C4_Witness ==
    /\ CloudKey
    /\ args["api_key"] = Str("arg:api_key")
    /\ env["AZURE_OPENAI_API_KEY"] = Str("AZURE_OPENAI_API_KEY")
    /\ oai_config.d["aoai_key"] = Str("arg:api_key")
    /\ args["endpoint_url"] = Str("")
    /\ oai_config.d["aoai_endpoint"] = Str("AZURE_OPENAI_API_BASE")
    /\ args["model_name"] = None
    /\ oai_config.d["aoai_deploy"] = Str("AZURE_OPENAI_API_DEPLOY")

(* C5: with OPENAI_AUTH_TYPE absent, construction selects cloud-api-key     *)
(* mode; with one of the three recognized values, the active mode is that   *)
(* value.                                                                   *)
C5_SelectorDefault ==
    Constructed =>
        /\ env["OPENAI_AUTH_TYPE"].t = "None" =>
              oai_auth_type = Str("use_azure_openai_api_key")
        /\ env["OPENAI_AUTH_TYPE"] \in {Str(n) : n \in AuthTypeNames} =>
              oai_auth_type = env["OPENAI_AUTH_TYPE"]

C5_Witness ==
    /\ Constructed
    /\ env["OPENAI_AUTH_TYPE"].t = "None"
    /\ oai_auth_type = Str("use_azure_openai_api_key")
    /\ "aoai_key" \in DOMAIN oai_config.d

UnrecognizedSelector ==
    /\ Truthy(env["OPENAI_AUTH_TYPE"])
    /\ env["OPENAI_AUTH_TYPE"] \notin {Str(n) : n \in AuthTypeNames}

(* C6: with an unrecognized selector construction completes, get_config     *)
(* returns an empty mapping, get_default_autogen_config returns None, and   *)
(* get_custom_autogen_config raises the error of indexing None.             *)
C6_UnrecognizedSelector ==
    (UnrecognizedSelector /\ pc # "start") =>
        /\ pc = "constructed"
        /\ ret.op = "get_config" =>
              /\ ret.kind = "return"
              /\ ret.value.t = "dict"
              /\ DOMAIN ret.value.d = {}
        /\ ret.op = "get_default_autogen_config" =>
              /\ ret.kind = "return"
              /\ ret.value.t = "None"
        /\ ret.op = "get_custom_autogen_config" =>
              /\ ret.kind = "raise"
              /\ ret.value = Str("TypeError")

C6_Witness ==
    /\ UnrecognizedSelector
    /\ Constructed
    /\ ret.op = "get_custom_autogen_config"
    /\ ret.kind = "raise"

(* C7: get_config returns, in direct-api-key mode, type 'oai' with model,   *)
(* api_key and api_version of the resolved direct values; in cloud-api-key  *)
(* mode, type 'aoai', model the resolved deployment and aoai_args holding   *)
(* azure_endpoint, api_version and api_key; in cloud-managed-identity mode  *)
(* the same with azure_ad_token_provider instead of api_key. The tag is     *)
(* 'oai' exactly in direct mode and 'aoai' exactly in the cloud modes.      *)
C7_GetConfigShape ==
    (Constructed /\ ret.op = "get_config") =>
        /\ ret.kind = "return"
        /\ ret.value.t = "dict"
        /\ Direct =>
              ret.value.d = [type        |-> Str("oai"),
                             model       |-> oai_config.d["oai_model"],
                             api_key     |-> oai_config.d["oai_key"],
                             api_version |-> oai_config.d["oai_version"]]
        /\ (CloudKey \/ CloudIdentity) =>
              /\ DOMAIN ret.value.d = {"type", "aoai_args", "model"}
              /\ ret.value.d["type"] = Str("aoai")
              /\ ret.value.d["model"] = oai_config.d["aoai_deploy"]
              /\ ret.value.d["aoai_args"].t = "dict"
              /\ ret.value.d["aoai_args"].d["azure_endpoint"] =
                    oai_config.d["aoai_endpoint"]
              /\ ret.value.d["aoai_args"].d["api_version"] =
                    oai_config.d["api_version"]
        /\ CloudKey =>
              /\ DOMAIN ret.value.d["aoai_args"].d =
                    {"azure_endpoint", "api_version", "api_key"}
              /\ ret.value.d["aoai_args"].d["api_key"] = oai_config.d["aoai_key"]
        /\ CloudIdentity =>
              /\ DOMAIN ret.value.d["aoai_args"].d =
                    {"azure_endpoint", "api_version", "azure_ad_token_provider"}
              /\ ret.value.d["aoai_args"].d["azure_ad_token_provider"] =
                    oai_config.d["azure_ad_token_provider"]
        /\ ("type" \in DOMAIN ret.value.d /\ ret.value.d["type"] = Str("oai"))
              <=> Direct
        /\ ("type" \in DOMAIN ret.value.d /\ ret.value.d["type"] = Str("aoai"))
              <=> (CloudKey \/ CloudIdentity)

(* get_config was called on a cloud-managed-identity instance whose *)
(* endpoint came from an override                                   *)
C7_Witness ==
    /\ CloudIdentity
    /\ Returned("get_config")
    /\ ret.value.d["aoai_args"].d["azure_endpoint"] = Str("arg:endpoint_url")

EntryBaseKeys == {"api_type", "api_version", "base_url", "model"}

(* C8: get_default_autogen_config returns, in direct-api-key mode, a        *)
(* mapping holding only 'model'; in either cloud mode 'cache_seed' None and *)
(* a 'config_list' of exactly one entry with api_type 'azure', api_version, *)
(* base_url (the endpoint) and model (the deployment), which holds exactly  *)
(* one of 'api_key' (cloud-api-key) or 'azure_ad_token_provider'            *)
(* (cloud-managed-identity).                                                *)
C8_DefaultAutogenShape ==
    (Constructed /\ ~Unrecognized /\ ret.op = "get_default_autogen_config") =>
        /\ ret.kind = "return"
        /\ ret.value.t = "dict"
        /\ Direct =>
              /\ DOMAIN ret.value.d = {"model"}
              /\ ret.value.d["model"] = oai_config.d["oai_model"]
        /\ (CloudKey \/ CloudIdentity) =>
              /\ DOMAIN ret.value.d = {"config_list", "cache_seed"}
              /\ ret.value.d["cache_seed"] = None
              /\ ret.value.d["config_list"].t = "list"
              /\ Len(ret.value.d["config_list"].l) = 1
              /\ LET entry == ret.value.d["config_list"].l[1]
                 IN  /\ entry.t = "dict"
                     /\ entry.d["api_type"] = Str("azure")
                     /\ entry.d["api_version"] = oai_config.d["api_version"]
                     /\ entry.d["base_url"] = oai_config.d["aoai_endpoint"]
                     /\ entry.d["model"] = oai_config.d["aoai_deploy"]
                     /\ CloudKey =>
                           /\ DOMAIN entry.d = EntryBaseKeys \cup {"api_key"}
                           /\ entry.d["api_key"] = oai_config.d["aoai_key"]
                     /\ CloudIdentity =>
                           /\ DOMAIN entry.d =
                                 EntryBaseKeys \cup {"azure_ad_token_provider"}
                           /\ entry.d["azure_ad_token_provider"] =
                                 oai_config.d["azure_ad_token_provider"]

(* get_default_autogen_config was called on a cloud-api-key instance with *)
(* a key                                                                  *)
C8_Witness ==
    /\ CloudKey
    /\ Returned("get_default_autogen_config")
    /\ ret.value.d["config_list"].l[1].d["api_key"] = Str("AZURE_OPENAI_API_KEY")

(* the instance __init__ builds from the same environment with no overrides *)
SelfWithoutOverrides == __init__(env, NoOverrides, Return(Str("token-1"))).value

(* C9: in direct-api-key mode the resolved key, model and version are the   *)
(* environment variables OPENAI_API_KEY, OPENAI_API_MODEL and               *)
(* OPENAI_API_VERSION: whatever the constructor overrides, the resolved     *)
(* credentials and the outputs of get_config and get_default_autogen_config *)
(* are those of an instance built with no overrides.                        *)
C9_DirectIgnoresOverrides ==
    Direct =>
        /\ oai_config.d = [oai_key     |-> env["OPENAI_API_KEY"],
                           oai_model   |-> env["OPENAI_API_MODEL"],
                           oai_version |-> env["OPENAI_API_VERSION"]]
        /\ Self = SelfWithoutOverrides
        /\ ret.op = "get_config" =>
              /\ ret.kind = "return"
              /\ ret.value = get_config(SelfWithoutOverrides).value
        /\ ret.op = "get_default_autogen_config" =>
              /\ ret.kind = "return"
              /\ ret.value = get_default_autogen_config(SelfWithoutOverrides).value

(* a direct-api-key instance built with every override supplied, after a *)
(* call of get_config                                                    *)
C9_Witness ==
    /\ Direct
    /\ \A n \in ArgNames : args[n] = Str("arg:" \o n)
    /\ env["OPENAI_API_KEY"] = Str("OPENAI_API_KEY")
    /\ Returned("get_config")
    /\ ret.value.d["api_key"] = Str("OPENAI_API_KEY")

(* C10: after construction no call of get_config,                            *)
(* get_default_autogen_config or get_custom_autogen_config, failing calls    *)
(* included, changes oai_auth_type or oai_config, and a repeated call of the *)
(* same accessor with the same arguments returns an equal result.            *)
C10_AccessorsLeaveInstance ==
    [][Constructed =>
          /\ oai_auth_type' = oai_auth_type
          /\ oai_config' = oai_config
          /\ (ret'.op = ret.op /\ ret'.args = ret.args) => ret' = ret]_vars

(* a call of get_custom_autogen_config has failed on a constructed instance *)
C10_Witness ==
    /\ Constructed
    /\ oai_config.t = "dict"
    /\ ret.op = "get_custom_autogen_config"
    /\ ret.kind = "raise"

====
